---- MODULE Spec2Model ----
(***************************************************************************)
(* A model of the bird-sound classification service of src/app.py: the     *)
(* upload validation (allowed_file), the inference pipeline (predict_file) *)
(* and the POST /predict handler (predict) with its scratch upload file.   *)
(*                                                                         *)
(* Three specifications share the module:                                  *)
(*   SpecAllowed  allowed_file applied to bounded filenames;               *)
(*   SpecAgg      the aggregation of predict_file (float32 mean, arg-max)  *)
(*                applied to bounded batches of predictions;               *)
(*   Spec         concurrent POST /predict requests over one upload        *)
(*                directory.                                               *)
(***************************************************************************)
EXTENDS Integers, Sequences, FiniteSets, TLC

VARIABLES
    fname,      \* SpecAllowed: the filename handed to allowed_file
    allowed,    \* SpecAllowed: allowed_file's result ("unset" before the call)
    preds,      \* SpecAgg: the classifier's output, one vector per segment
    agg,        \* SpecAgg: what the aggregation returned ("unset" before)
    pc,         \* Spec: each request's position in predict()
    req,        \* Spec: each request's multipart form
    filepath,   \* Spec: each request's local `filepath` (NoPath before line 99)
    run,        \* Spec: the locals of each request's predict_file call
    resp,       \* Spec: each request's response (NoResp while in flight)
    fs          \* the upload directory: file name -> content (Absent if none)

vars == <<fname, allowed, preds, agg, pc, req, filepath, run, resp, fs>>

----------------------------------------------------------------------------
(* Text.  A Python str is a sequence of one-character strings.             *)

\* The str of a sequence of characters.
RECURSIVE Text(_)
Text(s) == IF s = <<>> THEN "" ELSE s[1] \o Text(Tail(s))

\* str.lower() on the characters the model uses.
LowerChar(c) ==
    CASE c = "A" -> "a"
      [] c = "C" -> "c"
      [] c = "F" -> "f"
      [] c = "G" -> "g"
      [] c = "L" -> "l"
      [] c = "M" -> "m"
      [] c = "O" -> "o"
      [] c = "P" -> "p"
      [] c = "T" -> "t"
      [] c = "V" -> "v"
      [] c = "W" -> "w"
      [] c = "X" -> "x"
      [] OTHER -> c

Lower(s) == [i \in 1..Len(s) |-> LowerChar(s[i])]

\* '.' in filename
Contains(s, c) == \E i \in 1..Len(s) : s[i] = c

\* The index of the last occurrence of c in s[1..n], scanning from the right
\* as str.rsplit does; 0 when there is none.
RECURSIVE RFind(_, _, _)
RFind(s, c, n) ==
    IF n = 0 THEN 0
    ELSE IF s[n] = c THEN n
    ELSE RFind(s, c, n - 1)

\* filename.rsplit('.', 1): at most one split, at the last separator.
RSplit1(s, c) ==
    LET i == RFind(s, c, Len(s))
    IN  IF i = 0 THEN <<s>>
        ELSE <<SubSeq(s, 1, i - 1), SubSeq(s, i + 1, Len(s))>>

ALLOWED_EXTENSIONS ==
    { <<"w", "a", "v">>, <<"m", "p", "3">>,
      <<"f", "l", "a", "c">>, <<"o", "g", "g">> }

\* A slip allowed_file could make: split at the first '.', not the last.
RECURSIVE LFind(_, _, _)
LFind(s, c, n) ==
    IF n > Len(s) THEN 0
    ELSE IF s[n] = c THEN n
    ELSE LFind(s, c, n + 1)

allowed_file_firstdot(filename) ==
    /\ Contains(filename, ".")
    /\ Lower(SubSeq(filename, LFind(filename, ".", 1) + 1, Len(filename)))
          \in ALLOWED_EXTENSIONS

allowed_file(filename) ==
    /\ Contains(filename, ".")
    /\ Lower(RSplit1(filename, ".")[2]) \in ALLOWED_EXTENSIONS

----------------------------------------------------------------------------
(* float32.  A finite non-negative float32 is [m, k], standing for         *)
(* m / 2^k with 2^23 <= m < 2^24 (24 significant bits), or Zero.  The      *)
(* classifier's probabilities lie in [2^-10, 1], where k is in 23..33.     *)

F32(m, k) == [m |-> m, k |-> k]
Zero == F32(0, 0)

\* S / 2^K (S of 25 to 30 bits, its lowest bit also standing for any
\* non-zero bits dropped below it) rounded to 24 bits, to nearest, ties to
\* the even significand: IEEE 754's default rounding.
RoundNorm(S, K) ==
    LET sh   == CHOOSE s \in 0..6 : 2^(23 + s) <= S /\ S < 2^(24 + s)
        q    == S \div 2^sh
        r    == S % 2^sh
        half == IF sh = 0 THEN 0 ELSE 2^(sh - 1)
        up   == sh > 0 /\ (r > half \/ (r = half /\ q % 2 = 1))
        q1   == IF up THEN q + 1 ELSE q
    IN  IF q1 = 2^24 THEN F32(2^23, K - sh - 1) ELSE F32(q1, K - sh)

\* x with its lowest bit set when `sticky`.
OrSticky(x, sticky) == IF sticky /\ x % 2 = 0 THEN x + 1 ELSE x

\* a + b in float32 (np.add on float32 operands).
FAdd(a, b) ==
    IF a.m = 0 THEN b
    ELSE IF b.m = 0 THEN a
    ELSE
      LET hi == IF a.k <= b.k THEN a ELSE b
          lo == IF a.k <= b.k THEN b ELSE a
          d  == lo.k - hi.k
          x  == lo.m * 8
          B  == IF d >= 27 THEN 1
                ELSE OrSticky(x \div 2^d, x % 2^d # 0)
      IN  RoundNorm(hi.m * 8 + B, hi.k + 3)

\* a / n in float32, n a count of 1..16 (np.true_divide by the row count).
FDivN(a, n) ==
    IF a.m = 0 THEN Zero
    ELSE LET x == a.m * 64
         IN  RoundNorm(OrSticky(x \div n, x % n # 0), a.k + 6)

\* a < b
FLess(a, b) ==
    IF b.m = 0 THEN FALSE
    ELSE IF a.m = 0 THEN TRUE
    ELSE a.k > b.k \/ (a.k = b.k /\ a.m < b.m)

\* m * c / 2^s as <<quotient, remainder>>, for m < 2^24, c < 2^12 and
\* 12 <= s <= 30, computed in two 12-bit limbs to stay within 31 bits.
MulShift(m, c, s) ==
    LET hi == m \div 4096
        lo == m % 4096
        A  == hi * c + (lo * c) \div 4096
        B  == (lo * c) % 4096
    IN  << A \div 2^(s - 12), (A % 2^(s - 12)) * 4096 + B >>

\* Python's round(p, ndigits) of a float, ndigits in 0..5: the decimal with
\* ndigits places nearest to p's exact value, ties to the even digit.  The
\* result is [num, scale], standing for num / 10^scale, which is what
\* jsonify prints.
round(p, ndigits) ==
    IF p.m = 0 THEN [num |-> 0, scale |-> ndigits]
    ELSE LET s    == p.k - ndigits
             qr   == MulShift(p.m, 5^ndigits, s)
             half == 2^(s - 1)
             up   == qr[2] > half \/ (qr[2] = half /\ qr[1] % 2 = 1)
         IN  [num |-> IF up THEN qr[1] + 1 ELSE qr[1], scale |-> ndigits]

----------------------------------------------------------------------------
(* Configuration (src/app.py lines 13-27).                                 *)

UPLOAD_FOLDER == "uploads"
TARGET_SHAPE == <<64, 108>>
WINDOW_MS == 5000
OVERLAP_MS == 2500

CLASS_MAP ==
    [i \in 0..3 |->
        CASE i = 0 -> "AtlanticCanary"
          [] i = 1 -> "Sooty-headedBulbul"
          [] i = 2 -> "ZebraDove"
          [] i = 3 -> "MoustachedBabbler"]

\* A slip: the table read one place off.
class_label_shifted(i) ==
    IF i + 1 \in DOMAIN CLASS_MAP THEN CLASS_MAP[i + 1]
    ELSE "Class " \o ToString(i + 1)

\* CLASS_MAP.get(i, f'Class {i}')
class_label(i) ==
    IF i \in DOMAIN CLASS_MAP THEN CLASS_MAP[i] ELSE "Class " \o ToString(i)

----------------------------------------------------------------------------
(* The aggregation of predict_file (lines 72-74).                          *)

\* Column j of the rows 1..n of P summed in row order, as np.add.reduce
\* over axis 0 does, each partial sum rounded to float32.
RECURSIVE ColSum(_, _, _)
ColSum(P, j, n) ==
    IF n = 1 THEN P[1][j] ELSE FAdd(ColSum(P, j, n - 1), P[n][j])

\* preds.mean(axis=0)
Mean0(P) == [j \in 1..Len(P[1]) |-> FDivN(ColSum(P, j, Len(P)), Len(P))]

\* np.argmax's scan of v[1..n]: the position of the first maximum.
RECURSIVE ArgMaxScan(_, _)
ArgMaxScan(v, n) ==
    IF n = 1 THEN 1
    ELSE LET b == ArgMaxScan(v, n - 1)
         IN  IF FLess(v[b], v[n]) THEN n ELSE b

\* A slip: >= for >, so that the last maximum wins.
RECURSIVE ArgMaxLast(_, _)
ArgMaxLast(v, n) ==
    IF n = 1 THEN 1
    ELSE LET b == ArgMaxLast(v, n - 1)
         IN  IF FLess(v[n], v[b]) THEN b ELSE n

aggregate_last_max(P) ==
    LET avg_probs == Mean0(P)
    IN  [probs |-> avg_probs, pred_idx |-> ArgMaxLast(avg_probs, Len(avg_probs)) - 1]

\* Lines 72-74: avg_probs, pred_idx (0-based) from the classifier's output.
aggregate(P) ==
    LET avg_probs == Mean0(P)
    IN  [probs |-> avg_probs, pred_idx |-> ArgMaxScan(avg_probs, Len(avg_probs)) - 1]

----------------------------------------------------------------------------
(* werkzeug's secure_filename (line 98), on the characters the model uses: *)
(* path separators become spaces, the whitespace-separated pieces are      *)
(* joined with "_", characters outside [A-Za-z0-9_.-] are dropped, and     *)
(* leading and trailing "." and "_" are stripped.                          *)

ReplaceSep(s) == [i \in 1..Len(s) |-> IF s[i] = "/" THEN " " ELSE s[i]]

\* "_".join(s.split()), scanning s from position i; `gap` tells that
\* whitespace has been passed since the last character kept in `out`.
RECURSIVE JoinSplit(_, _, _, _)
JoinSplit(s, i, out, gap) ==
    IF i > Len(s) THEN out
    ELSE IF s[i] = " " THEN JoinSplit(s, i + 1, out, out # <<>>)
    ELSE JoinSplit(s, i + 1,
                   (IF gap THEN Append(out, "_") ELSE out) \o <<s[i]>>, FALSE)

IsFilenameChar(c) == c \notin {" ", "/", "!", "?"}

RECURSIVE LStrip(_)
LStrip(s) ==
    IF s # <<>> /\ s[1] \in {".", "_"} THEN LStrip(Tail(s)) ELSE s

RECURSIVE RStrip(_)
RStrip(s) ==
    IF s # <<>> /\ s[Len(s)] \in {".", "_"}
    THEN RStrip(SubSeq(s, 1, Len(s) - 1)) ELSE s

secure_filename(filename) ==
    RStrip(LStrip(SelectSeq(JoinSplit(ReplaceSep(filename), 1, <<>>, FALSE),
                            IsFilenameChar)))

\* os.path.join(app.config['UPLOAD_FOLDER'], filename)
os_path_join(folder, filename) == folder \o "/" \o Text(filename)

----------------------------------------------------------------------------
(* The collaborators of the pipeline that are not in src/app.py: the       *)
(* audio_util module and the trained classifier.  An uploaded clip is      *)
(* [decodable, frames]; its waveform holds one frame per OVERLAP_MS ms,    *)
(* each frame the sound heard in it.                                       *)

Clip(frames) == [decodable |-> TRUE, frames |-> frames]
Corrupt == [decodable |-> FALSE, frames |-> <<>>]

FrameMs == OVERLAP_MS

\* AudioUtil.split(audio, window_ms, overlap_ms): the windows starting at
\* 0, step, 2*step, ... that end within the waveform.
AudioUtil_split(audio, window_ms, overlap_ms) ==
    LET win  == window_ms \div FrameMs
        step == (window_ms - overlap_ms) \div FrameMs
        n    == IF Len(audio) < win THEN 0 ELSE (Len(audio) - win) \div step + 1
    IN  [i \in 1..n |-> SubSeq(audio, (i - 1) * step + 1, (i - 1) * step + win)]

\* AudioUtil.melspectrogram(segment)
AudioUtil_melspectrogram(segment) == [mel |-> segment]

\* The classifier's output for one preprocessed feature: four float32
\* probabilities.  0.44, 0.22, 0.22, 0.12 / 0.25 each / 0.1, 0.2, 0.3, 0.4 /
\* 0.4, the float32 next above 0.4, 0.1, 0.1 / 0.1, 0.4, 0.4, 0.1 /
\* 0.7, 0.1, 0.1, 0.1.
PredVectors ==
    << <<F32(14763950, 25), F32(14763950, 26), F32(14763950, 26), F32(16106127, 27)>>,
       <<F32(8388608, 25), F32(8388608, 25), F32(8388608, 25), F32(8388608, 25)>>,
       <<F32(13421773, 27), F32(13421773, 26), F32(10066330, 25), F32(13421773, 25)>>,
       <<F32(13421773, 25), F32(13421774, 25), F32(13421773, 27), F32(13421773, 27)>>,
       <<F32(13421773, 27), F32(13421773, 25), F32(13421773, 25), F32(13421773, 27)>>,
       <<F32(11744051, 24), F32(13421773, 27), F32(13421773, 27), F32(13421773, 27)>> >>

\* model.predict on one feature: a pure function of the feature.
Classifier(feature) ==
    LET seg == feature.spec.mel
    IN  CASE seg = <<1, 1>> -> PredVectors[1]
          [] seg = <<1, 2>> -> PredVectors[3]
          [] seg = <<2, 1>> -> PredVectors[4]
          [] seg = <<2, 2>> -> PredVectors[6]
          [] OTHER -> PredVectors[2]

----------------------------------------------------------------------------
(* The pipeline: preprocess_segment (lines 50-54), predict_file (62-74).   *)

\* Lines 50-54: the mel-spectrogram resized to TARGET_SHAPE with a channel
\* axis, min-max normalised.
preprocess_segment(segment_audio) ==
    [shape |-> TARGET_SHAPE \o <<1>>, spec |-> AudioUtil_melspectrogram(segment_audio)]

NoExc == [raised |-> FALSE, msg |-> ""]
Raise(msg) == [raised |-> TRUE, msg |-> msg]

\* What a predict_file call leaves: the exception it raised, if any, and
\* its locals (segments, the batch given to model.predict, the result).
Outcome(exc, opened, segments, batch, called, result) ==
    [ran |-> TRUE, exc |-> exc, opened |-> opened, segments |-> segments,
     batch |-> batch, model_called |-> called,
     probs |-> result.probs, pred_idx |-> result.pred_idx]

NoResult == [probs |-> <<>>, pred_idx |-> -1]

\* Lines 68-74, for the segments at hand.
infer(segments, model_ok) ==
    LET specs == [i \in 1..Len(segments) |-> preprocess_segment(segments[i])]
    IN  IF specs = <<>>
        THEN \* np.stack of an empty list
             Outcome(Raise("need at least one array to stack"),
                     TRUE, segments, <<>>, FALSE, NoResult)
        ELSE IF ~model_ok
        THEN Outcome(Raise("classifier failed"), TRUE, segments, specs, TRUE, NoResult)
        ELSE Outcome(NoExc, TRUE, segments, specs, TRUE,
                     aggregate([i \in 1..Len(specs) |-> Classifier(specs[i])]))

\* Lines 63-64: AudioUtil.open of the file at audio_path in directory dir.
AudioUtil_open(audio_path, dir) ==
    IF audio_path \notin DOMAIN dir
    THEN [exc |-> Raise("[Errno 2] No such file or directory: '" \o audio_path \o "'"),
          audio |-> <<>>]
    ELSE IF ~dir[audio_path].decodable
    THEN [exc |-> Raise("could not decode audio"), audio |-> <<>>]
    ELSE [exc |-> NoExc, audio |-> dir[audio_path].frames]

\* A slip: the guard of lines 65-66 left out.
predict_file_unguarded(audio_path, dir, model_ok) ==
    LET opened == AudioUtil_open(audio_path, dir)
    IN  IF opened.exc.raised
        THEN Outcome(opened.exc, FALSE, <<>>, <<>>, FALSE, NoResult)
        ELSE infer(AudioUtil_split(opened.audio, WINDOW_MS, OVERLAP_MS), model_ok)

\* Lines 62-74.  model_ok tells whether model.predict returns or raises.
predict_file(audio_path, dir, model_ok) ==
    LET opened   == AudioUtil_open(audio_path, dir)
        segments == AudioUtil_split(opened.audio, WINDOW_MS, OVERLAP_MS)
    IN  IF opened.exc.raised
        THEN Outcome(opened.exc, FALSE, <<>>, <<>>, FALSE, NoResult)
        ELSE IF segments = <<>>
        THEN Outcome(Raise("No valid audio segments found."),
                     TRUE, segments, <<>>, FALSE, NoResult)
        ELSE infer(segments, model_ok)

----------------------------------------------------------------------------
(* The handler of POST /predict (lines 87-115).                            *)

NoResp == [status |-> 0]
NoPath == ""
NoRun == [ran |-> FALSE]
NoRequest == [arrived |-> FALSE]

error_response(status, msg) == [status |-> status, body |-> [error |-> msg]]

\* bool(file) of a werkzeug FileStorage: whether it has a filename.
FileBool(file) == file.filename # <<>>

Step(response, path, dir) == [resp |-> response, filepath |-> path, dir |-> dir]

\* A slip: the upload saved before it is validated.
predict_upload_save_first(files, dir) ==
    IF "file" \notin DOMAIN files
    THEN Step(error_response(400, "No file part in the request"), NoPath, dir)
    ELSE
      LET file  == files["file"]
          path  == os_path_join(UPLOAD_FOLDER, secure_filename(file.filename))
          saved == (path :> file.content) @@ dir
      IN  IF file.filename = <<>>
          THEN Step(error_response(400, "No selected file"), NoPath, saved)
          ELSE IF FileBool(file) /\ allowed_file(file.filename)
          THEN Step(NoResp, path, saved)
          ELSE Step(error_response(400, "Unsupported file extension"), NoPath, saved)

\* A slip: the empty-filename check left out.
predict_upload_no_empty_check(files, dir) ==
    IF "file" \notin DOMAIN files
    THEN Step(error_response(400, "No file part in the request"), NoPath, dir)
    ELSE
      LET file == files["file"]
          path == os_path_join(UPLOAD_FOLDER, secure_filename(file.filename))
      IN  IF FileBool(file) /\ allowed_file(file.filename)
          THEN Step(NoResp, path, (path :> file.content) @@ dir)
          ELSE Step(error_response(400, "Unsupported file extension"), NoPath, dir)

\* A slip: the extension compared without .lower().
predict_upload_case_sensitive(files, dir) ==
    IF "file" \notin DOMAIN files
    THEN Step(error_response(400, "No file part in the request"), NoPath, dir)
    ELSE
      LET file == files["file"]
          path == os_path_join(UPLOAD_FOLDER, secure_filename(file.filename))
      IN  IF file.filename = <<>>
          THEN Step(error_response(400, "No selected file"), NoPath, dir)
          ELSE IF /\ FileBool(file)
                  /\ Contains(file.filename, ".")
                  /\ RSplit1(file.filename, ".")[2] \in ALLOWED_EXTENSIONS
          THEN Step(NoResp, path, (path :> file.content) @@ dir)
          ELSE Step(error_response(400, "Unsupported file extension"), NoPath, dir)

\* Lines 89-100 and 115: the request's validation and file.save.  The
\* response is NoResp when the handler goes on to inference.
predict_upload(files, dir) ==
    IF "file" \notin DOMAIN files
    THEN Step(error_response(400, "No file part in the request"), NoPath, dir)
    ELSE
      LET file == files["file"]
          path == os_path_join(UPLOAD_FOLDER, secure_filename(file.filename))
      IN  IF file.filename = <<>>
          THEN Step(error_response(400, "No selected file"), NoPath, dir)
          ELSE IF FileBool(file) /\ allowed_file(file.filename)
          THEN Step(NoResp, path, (path :> file.content) @@ dir)
          ELSE Step(error_response(400, "Unsupported file extension"), NoPath, dir)

\* A slip: the exception swallowed and an empty result returned.
inference_failed_swallowed(e) ==
    [status |-> 200, body |-> [prediction |-> "", probabilities |-> <<>>]]

\* Lines 112-113.
inference_failed(e) == error_response(500, "Inference failed: " \o e.msg)

\* Lines 105-111: the 200 response.  A later index overwrites an earlier
\* one with the same label, as in the dict comprehension.
jsonify_prediction(probs, pred_idx) ==
    LET labels  == {class_label(i - 1) : i \in 1..Len(probs)}
        last(l) == CHOOSE i \in 1..Len(probs) :
                      /\ class_label(i - 1) = l
                      /\ \A j \in 1..Len(probs) : class_label(j - 1) = l => j <= i
    IN  [status |-> 200,
         body |-> [prediction    |-> class_label(pred_idx),
                   probabilities |-> [l \in labels |-> round(probs[last(l)], 4)]]]

\* os.remove(path) in directory dir
os_remove(path, dir) ==
    IF path \in DOMAIN dir
    THEN [exc |-> NoExc, dir |-> [q \in DOMAIN dir \ {path} |-> dir[q]]]
    ELSE [exc |-> Raise("[Errno 2] No such file or directory: '" \o path \o "'"),
          dir |-> dir]

\* Lines 104-113 after predict_file has returned `out`.
predict_finish(out, path, dir) ==
    LET removed == os_remove(path, dir)
    IN  IF removed.exc.raised
        THEN Step(inference_failed(removed.exc), path, removed.dir)
        ELSE Step(jsonify_prediction(out.probs, out.pred_idx), path, removed.dir)

----------------------------------------------------------------------------
(* Bounds.                                                                 *)

NumRequests == 2    \* POST /predict requests in flight together
MaxChunks == 4      \* pieces a filename given to allowed_file is built from
MaxSegments == 3    \* rows of a batch of predictions given to the aggregation

----------------------------------------------------------------------------
(* SpecAllowed: allowed_file applied to a filename.                        *)

Chunks ==
    { <<"a">>, <<".">>, <<"w", "a", "v">>, <<"W", "a", "V">>, <<"M", "P", "3">>,
      <<"f", "l", "a", "c">>, <<"o", "g", "g">>, <<"t", "x", "t">>,
      <<"w", "a">>, <<"m", "p", "3", "x">> }

RECURSIVE Names(_)
Names(n) ==
    IF n = 0 THEN {<<>>}
    ELSE LET shorter == Names(n - 1)
         IN  shorter \cup {p \o c : p \in shorter, c \in Chunks}

HandlerIdle ==
    /\ pc = [r \in 1..NumRequests |-> "idle"]
    /\ req = [r \in 1..NumRequests |-> NoRequest]
    /\ filepath = [r \in 1..NumRequests |-> NoPath]
    /\ run = [r \in 1..NumRequests |-> NoRun]
    /\ resp = [r \in 1..NumRequests |-> NoResp]
    /\ fs = <<>>

handlerVars == <<pc, req, filepath, run, resp, fs>>

InitAllowed ==
    /\ fname \in Names(MaxChunks)
    /\ allowed = <<>>
    /\ preds = <<>>
    /\ agg = <<>>
    /\ HandlerIdle

CallAllowedFile ==
    /\ allowed = <<>>
    /\ allowed' = <<allowed_file(fname)>>
    /\ UNCHANGED <<fname, preds, agg, handlerVars>>

NextAllowed == CallAllowedFile

SpecAllowed == InitAllowed /\ [][NextAllowed]_vars

----------------------------------------------------------------------------
(* SpecAgg: the aggregation applied to a batch of predictions.             *)

VectorSet == {PredVectors[i] : i \in DOMAIN PredVectors}

InitAgg ==
    /\ preds \in UNION {[1..n -> VectorSet] : n \in 1..MaxSegments}
    /\ agg = <<>>
    /\ fname = <<>>
    /\ allowed = <<>>
    /\ HandlerIdle

CallAggregate ==
    /\ agg = <<>>
    /\ agg' = <<aggregate(preds)>>
    /\ UNCHANGED <<fname, allowed, preds, handlerVars>>

NextAgg == CallAggregate

SpecAgg == InitAgg /\ [][NextAgg]_vars

----------------------------------------------------------------------------
(* Spec: NumRequests concurrent POST /predict requests.  A request's       *)
(* handler runs in three steps, cut where it touches the upload directory: *)
(* validation and file.save; predict_file, which reads the file; os.remove *)
(* and the response.                                                       *)

Requests == 1..NumRequests

UploadNames ==
    { <<>>,
      <<"a", ".", "w", "a", "v">>,
      <<".", ".", "/", "a", ".", "w", "a", "v">>,
      <<"b", ".", "O", "G", "G">>,
      <<"c", ".", "t", "x", "t">>,
      <<"f", "l", "a", "c">> }

\* An upload that does not decode, a 2.5 s clip (shorter than one window)
\* and a 7.5 s clip (two windows).
Uploads == {Corrupt, Clip(<<1>>), Clip(<<2, 1, 2>>)}

FileStorage(filename, content) == [filename |-> filename, content |-> content]

\* request.files of the requests the clients send: no part at all, a file
\* under another field name, a 'file' part with no file selected, and a
\* 'file' part with each name; the names that pass allowed_file come with
\* each content, the others (whose content is never read) with one.
Forms ==
    {<<>>}
    \cup {("audio" :> FileStorage(<<"a", ".", "w", "a", "v">>, Clip(<<1>>)))}
    \cup {("file" :> FileStorage(<<>>, Clip(<<>>)))}
    \cup {("file" :> FileStorage(f, c)) :
             f \in {g \in UploadNames : allowed_file(g)}, c \in Uploads}
    \cup {("file" :> FileStorage(f, Clip(<<1>>))) :
             f \in {g \in UploadNames : g # <<>> /\ ~allowed_file(g)}}

Init ==
    /\ HandlerIdle
    /\ fname = <<>>
    /\ allowed = <<>>
    /\ preds = <<>>
    /\ agg = <<>>

\* Lines 89-100, 115.
Upload(r) ==
    /\ pc[r] = "idle"
    /\ \E files \in Forms :
         LET u == predict_upload(files, fs)
         IN  /\ req' = [req EXCEPT ![r] = [arrived |-> TRUE, files |-> files]]
             /\ filepath' = [filepath EXCEPT ![r] = u.filepath]
             /\ resp' = [resp EXCEPT ![r] = u.resp]
             /\ fs' = u.dir
             /\ pc' = [pc EXCEPT ![r] = IF u.resp = NoResp THEN "saved" ELSE "done"]
    /\ UNCHANGED <<run, fname, allowed, preds, agg>>

\* Lines 102-103, and 112-113 when predict_file raises.
Infer(r) ==
    /\ pc[r] = "saved"
    /\ \E model_ok \in BOOLEAN :
         LET out == predict_file(filepath[r], fs, model_ok)
         IN  /\ run' = [run EXCEPT ![r] = out]
             /\ resp' = [resp EXCEPT ![r] =
                           IF out.exc.raised THEN inference_failed(out.exc) ELSE NoResp]
             /\ pc' = [pc EXCEPT ![r] = IF out.exc.raised THEN "done" ELSE "predicted"]
    /\ UNCHANGED <<req, filepath, fs, fname, allowed, preds, agg>>

\* Lines 104-111, and 112-113 when os.remove raises.
Cleanup(r) ==
    /\ pc[r] = "predicted"
    /\ LET f == predict_finish(run[r], filepath[r], fs)
       IN  /\ resp' = [resp EXCEPT ![r] = f.resp]
           /\ fs' = f.dir
    /\ pc' = [pc EXCEPT ![r] = "done"]
    /\ UNCHANGED <<req, filepath, run, fname, allowed, preds, agg>>

Next == \E r \in Requests : Upload(r) \/ Infer(r) \/ Cleanup(r)

Spec == Init /\ [][Next]_vars

----------------------------------------------------------------------------
(* The claims.                                                             *)

\* The upper-case form of the characters of the allowed extensions.
UpperOf(c) ==
    CASE c = "a" -> "A" [] c = "c" -> "C" [] c = "f" -> "F" [] c = "g" -> "G"
      [] c = "l" -> "L" [] c = "m" -> "M" [] c = "o" -> "O" [] c = "p" -> "P"
      [] c = "v" -> "V" [] c = "w" -> "W" [] OTHER -> c

\* f ends, after its last '.', in one of wav, mp3, flac, ogg, letter case
\* aside.
HasAllowedExtension(f) ==
    \E i \in 1..Len(f) :
       /\ f[i] = "."
       /\ \A j \in (i + 1)..Len(f) : f[j] # "."
       /\ \E e \in ALLOWED_EXTENSIONS :
            /\ Len(e) = Len(f) - i
            /\ \A j \in 1..Len(e) : f[i + j] = e[j] \/ f[i + j] = UpperOf(e[j])

\* C4: allowed_file(filename) is true exactly when the text after the last
\* '.' of filename is, compared case-insensitively, one of wav, mp3, flac,
\* ogg; a filename with no '.' is rejected.
C4_AllowedFile ==
    allowed # <<>> => (allowed[1] <=> HasAllowedExtension(fname))

\* allowed_file has accepted ".a.WaV": two dots, mixed case.
C4_Witness ==
    /\ allowed = <<TRUE>>
    /\ fname = <<".", "a", ".", "W", "a", "V">>

\* The position (0-based) of the first maximum of v.
FirstMax(v) ==
    (CHOOSE i \in 1..Len(v) :
        /\ \A j \in 1..Len(v) : ~FLess(v[i], v[j])
        /\ \A j \in 1..(i - 1) : FLess(v[j], v[i])) - 1

IdenticalRows(P) == \A i \in 1..Len(P) : P[i] = P[1]

\* The place of a positive float32 among the float32s in increasing order.
Ordinal(x) == (40 - x.k) * 2^23 + (x.m - 2^23)

\* The distance of a and b in units in the last place.
UlpDistance(a, b) ==
    IF Ordinal(a) >= Ordinal(b) THEN Ordinal(a) - Ordinal(b)
    ELSE Ordinal(b) - Ordinal(a)

\* C8 as stated: the predicted index is the first maximum of the returned
\* mean, and aggregating N >= 1 identical probability vectors returns that
\* vector unchanged with the index of its first maximum.
C8_IdenticalUnchanged ==
    agg # <<>> =>
       /\ agg[1].pred_idx = FirstMax(agg[1].probs)
       /\ IdenticalRows(preds) =>
             /\ agg[1].probs = preds[1]
             /\ agg[1].pred_idx = FirstMax(preds[1])

\* C8 as amended: the predicted index is the first maximum of the returned
\* float32 mean; aggregating N identical vectors returns that vector
\* unchanged, with the index of its first maximum, when N <= 2, and for any
\* N a vector whose components are within N units in the last place of the
\* original's.
C8_MeanArgmax ==
    agg # <<>> =>
       /\ agg[1].pred_idx = FirstMax(agg[1].probs)
       /\ Len(agg[1].probs) = Len(preds[1])
       /\ IdenticalRows(preds) =>
             /\ \A j \in 1..Len(preds[1]) :
                   UlpDistance(agg[1].probs[j], preds[1][j]) <= Len(preds)
             /\ Len(preds) <= 2 =>
                   /\ agg[1].probs = preds[1]
                   /\ agg[1].pred_idx = FirstMax(preds[1])

\* Two identical rows 0.1, 0.4, 0.4, 0.1 have been aggregated: the vector
\* is returned as it is and the tie goes to index 1.
C8_Witness ==
    /\ agg # <<>>
    /\ preds = <<PredVectors[5], PredVectors[5]>>
    /\ agg[1].probs = PredVectors[5]
    /\ agg[1].pred_idx = 1

Arrived(r) == req[r].arrived
HasFilePart(r) == Arrived(r) /\ "file" \in DOMAIN req[r].files
Filename(r) == req[r].files["file"].filename
Answered(r) == resp[r] # NoResp

\* C1 as stated: when a request that saved its upload is answered, with 200
\* or with 500, the file it saved is no longer in the upload directory.
C1_FileRemovedOnResponse ==
    [][\A r \in Requests :
          (~Answered(r) /\ resp'[r] # NoResp /\ filepath'[r] # NoPath)
             => filepath'[r] \notin DOMAIN fs']_vars

\* C2: a request answered with 400 has saved nothing and run nothing: the
\* step that answers it leaves the upload directory as it was, and the
\* request has no file path and no predict_file call.
C2_RejectionHasNoEffect ==
    [][\A r \in Requests :
          (~Answered(r) /\ resp'[r] # NoResp /\ resp'[r].status = 400)
             => /\ fs' = fs
                /\ filepath'[r] = NoPath
                /\ run'[r] = NoRun]_vars

\* A request has been answered 400 while another request's upload is in
\* the directory.
C2_Witness ==
    \E r \in Requests :
       /\ Answered(r) /\ resp[r].status = 400
       /\ filepath[r] = NoPath
       /\ DOMAIN fs # {}

Unsupported == error_response(400, "Unsupported file extension")

\* C3: a request with a file part and a non-empty filename is answered
\* 400 "Unsupported file extension" exactly when the filename's extension
\* (compared case-insensitively) is not one of wav, mp3, flac, ogg; a
\* filename with no extension is unsupported.
C3_UnsupportedExtension ==
    \A r \in Requests :
       (HasFilePart(r) /\ Filename(r) # <<>>)
          => (resp[r] = Unsupported <=> ~HasAllowedExtension(Filename(r)))

\* "flac" (no extension) has been refused and "b.OGG" answered 200.
C3_Witness ==
    \E r1, r2 \in Requests :
       /\ HasFilePart(r1) /\ Filename(r1) = <<"f", "l", "a", "c">>
       /\ resp[r1] = Unsupported
       /\ HasFilePart(r2) /\ Filename(r2) = <<"b", ".", "O", "G", "G">>
       /\ resp[r2].status = 200

\* The message of the first check a request fails, "" if it passes all.
FirstFailedCheck(files) ==
    IF "file" \notin DOMAIN files THEN "No file part in the request"
    ELSE IF files["file"].filename = <<>> THEN "No selected file"
    ELSE IF ~HasAllowedExtension(files["file"].filename)
    THEN "Unsupported file extension"
    ELSE ""

\* C5: a request without a 'file' part is answered 400 "No file part in
\* the request", one with an empty filename 400 "No selected file", and
\* every request answered 400 carries the message of the first check it
\* fails, the checks ordered file part, filename, extension.
C5_ValidationOrder ==
    \A r \in Requests :
       Arrived(r) =>
          /\ ~HasFilePart(r)
                => resp[r] = error_response(400, "No file part in the request")
          /\ (HasFilePart(r) /\ Filename(r) = <<>>)
                => resp[r] = error_response(400, "No selected file")
          /\ (Answered(r) /\ resp[r].status = 400)
                => resp[r].body.error = FirstFailedCheck(req[r].files)
          /\ FirstFailedCheck(req[r].files) # ""
                => (Answered(r) /\ resp[r].status = 400)

\* One request without a 'file' part (its file is under 'audio') and one
\* with an empty filename have both been answered.
C5_Witness ==
    \E r1, r2 \in Requests :
       /\ Arrived(r1) /\ DOMAIN req[r1].files = {"audio"}
       /\ resp[r1] = error_response(400, "No file part in the request")
       /\ HasFilePart(r2) /\ Filename(r2) = <<>>
       /\ resp[r2] = error_response(400, "No selected file")

\* C6: when a request's predict_file call raises, whatever it raises, the
\* request is answered 500 with the error "Inference failed: " followed by
\* the exception's message, and with nothing else.
C6_PipelineExceptionIs500 ==
    \A r \in Requests :
       (run[r].ran /\ run[r].exc.raised)
          => resp[r] = [status |-> 500,
                        body |-> [error |-> "Inference failed: " \o run[r].exc.msg]]

\* The empty segment set and a classifier failure have both been answered.
C6_Witness ==
    \E r1, r2 \in Requests :
       /\ run[r1].ran /\ run[r1].exc = Raise("No valid audio segments found.")
       /\ resp[r1].status = 500
       /\ run[r2].ran /\ run[r2].exc = Raise("classifier failed")
       /\ resp[r2].status = 500

ClassNames == {CLASS_MAP[i] : i \in DOMAIN CLASS_MAP}

\* v, a decimal [num, scale], has at most 4 decimal places and lies within
\* half of 1/10^4 of the float32 p (p = 0, or 2^-10 <= p <= 1).
RoundedTo4(v, p) ==
    /\ (v.num * 10^4) % (10^v.scale) = 0
    /\ LET n == (v.num * 10^4) \div (10^v.scale)
           D == (p.m \div 4096) * 625 - n * 2^(p.k - 16)
           E == 4096 * D + 625 * (p.m % 4096)
       IN  IF p.m = 0 THEN n = 0
           ELSE /\ -(2^18) <= D /\ D <= 2^18
                /\ -(2^(p.k - 5)) <= E /\ E <= 2^(p.k - 5)

\* C7: a 200 response has a 'probabilities' mapping whose keys are exactly
\* the four class names of CLASS_MAP (never a 'Class {i}' label), each
\* value the averaged probability of its class rounded to 4 decimals, and
\* a 'prediction' that is one of the four names.
C7_ResponseShape ==
    \A r \in Requests :
       (Answered(r) /\ resp[r].status = 200) =>
          LET body == resp[r].body
          IN  /\ DOMAIN body.probabilities = ClassNames
              /\ Cardinality(DOMAIN body.probabilities) = 4
              /\ Len(run[r].probs) = 4
              /\ \A i \in DOMAIN CLASS_MAP :
                    RoundedTo4(body.probabilities[CLASS_MAP[i]], run[r].probs[i + 1])
              /\ body.prediction \in ClassNames

\* A 200 response for a two-segment clip, the mean of 0.4 and 0.1 for the
\* first class printed as 0.25.
C7_Witness ==
    \E r \in Requests :
       /\ Answered(r) /\ resp[r].status = 200
       /\ Len(run[r].segments) = 2
       /\ resp[r].body.probabilities["AtlanticCanary"] = [num |-> 2500, scale |-> 4]

\* The responses a request can get when it is the only one: its handler
\* run from start to end on an empty upload directory.
AloneResponses(files) ==
    LET u == predict_upload(files, <<>>)
    IN  IF u.resp # NoResp THEN {u.resp}
        ELSE { LET out == predict_file(u.filepath, u.dir, model_ok)
               IN  IF out.exc.raised THEN inference_failed(out.exc)
                   ELSE predict_finish(out, u.filepath, u.dir).resp
               : model_ok \in BOOLEAN }

\* C9 as stated: however the requests interleave, each request is answered
\* as if it had run alone.
C9_RequestsIsolated ==
    \A r \in Requests :
       Answered(r) => resp[r] \in AloneResponses(req[r].files)

\* C10: model.predict is never given an empty batch: the batch holds the
\* preprocessed feature of each segment, in order; and when the file opens
\* and AudioUtil.split yields no segments, predict_file raises "No valid
\* audio segments found." with nothing stacked and no model.predict call.
C10_NoEmptyBatch ==
    \A r \in Requests :
       run[r].ran =>
          /\ run[r].model_called =>
                /\ run[r].batch # <<>>
                /\ Len(run[r].batch) = Len(run[r].segments)
                /\ \A i \in 1..Len(run[r].segments) :
                      run[r].batch[i] = preprocess_segment(run[r].segments[i])
          /\ (run[r].opened /\ run[r].segments = <<>>) =>
                /\ run[r].exc = Raise("No valid audio segments found.")
                /\ run[r].batch = <<>>
                /\ ~run[r].model_called
          /\ (run[r].opened /\ run[r].segments # <<>>) => run[r].model_called

\* A clip shorter than one window has raised, and a three-frame clip has
\* reached the classifier as a batch of two.
C10_Witness ==
    \E r1, r2 \in Requests :
       /\ run[r1].ran /\ run[r1].opened /\ run[r1].segments = <<>>
       /\ run[r2].ran /\ run[r2].model_called
       /\ run[r2].segments = << <<2, 1>>, <<1, 2>> >>

====
